---- MODULE Spec2Model ----
(***************************************************************************)
(* Model of run.py: the structural extractor (extract_features_from_code), *)
(* the glossary matcher (fuzzy_match, i.e. difflib.get_close_matches) and  *)
(* the rule engine (infer_requirements).                                   *)
(***************************************************************************)
EXTENDS Integers, Sequences, FiniteSets, TLC

VARIABLES code, pc, tree, tokens, todo, features, exc,
          term, glossary, mpc, matched,
          feats, phase, idx, requirements

vars == <<code, pc, tree, tokens, todo, features, exc,
          term, glossary, mpc, matched,
          feats, phase, idx, requirements>>

exVars == <<code, pc, tree, tokens, todo, features, exc>>
fmVars == <<term, mpc, matched>>
irVars == <<feats, phase, idx, requirements>>

\* ------------------------------------------------------------------------
\* Bounds of the model
\* ------------------------------------------------------------------------
MaxLines == 3
MaxIndent == 1
MaxTermLen == 2
MaxGloss == 2
MaxItems == 3
MaxEvidence == 6

\* ------------------------------------------------------------------------
\* Generic sequence helpers
\* ------------------------------------------------------------------------
Last(s) == s[Len(s)]
Front(s) == SubSeq(s, 1, Len(s) - 1)

\* All sequences over S of length at most n.
SeqsUpTo(S, n) == UNION {[1..k -> S] : k \in 0..n}
SeqsOfLen(S, k) == [1..k -> S]

IsPrefix(s, t) == Len(s) <= Len(t) /\ SubSeq(t, 1, Len(s)) = s

\* ------------------------------------------------------------------------
\* Source text: a sequence of physical lines, each an indentation column
\* and a statement shape.
\* ------------------------------------------------------------------------
NameT(id) == [t |-> "Name", id |-> id]
AttributeT == [t |-> "Attribute", id |-> "o"]
SubscriptT == [t |-> "Subscript", id |-> "t"]
TupleT == [t |-> "Tuple", id |-> "p"]

Shape(k, name, inline, targets, value) ==
    [k |-> k, name |-> name, inline |-> inline, targets |-> targets, value |-> value]

CommentText == <<"#", "v", " ">>

Shapes ==
    { Shape("def", "f", FALSE, <<>>, "none"),                 \* def f():
      Shape("def", "g", TRUE, <<>>, "none"),                  \* def g(): pass
      Shape("def", "k", TRUE, <<>>, "none"),                  \* def k(): pass
      Shape("asyncdef", "h", TRUE, <<>>, "none"),             \* async def h(): pass
      Shape("assign", "", TRUE, <<NameT("x"), NameT("y")>>, "int"),          \* x = y = 1
      Shape("assign", "", TRUE, <<AttributeT, SubscriptT, TupleT>>, "int"),  \* o.a = t[0] = (p, q) = 1
      Shape("assign", "", TRUE, <<NameT("x")>>, "str"),       \* x = "s"
      Shape("annassign", "", TRUE, <<NameT("z")>>, "int"),    \* z: int = 1
      Shape("expr", "", TRUE, <<>>, "str"),                   \* "doc"
      Shape("comment", "", TRUE, <<>>, "none"),               \* # v
      Shape("garbage", "", TRUE, <<>>, "none") }              \* def f(:

Lines == {[indent |-> c, stmt |-> s] : c \in 0..MaxIndent, s \in Shapes}

Sources(n) == SeqsOfLen(Lines, n)

IsComment(line) == line.stmt.k = "comment"
IsStmt(line) == ~IsComment(line)
Stmts(src) == SelectSeq(src, IsStmt)
Opener(line) == line.stmt.k \in {"def", "asyncdef"} /\ ~line.stmt.inline

\* ------------------------------------------------------------------------
\* ast.parse: either SyntaxError or, for each logical line, its block depth.
\* Indentation follows the tokenizer's indent stack.
\* ------------------------------------------------------------------------
SyntaxError == [ok |-> FALSE, depth |-> <<>>]

RECURSIVE PopTo(_, _)
PopTo(stack, c) ==
    IF Len(stack) > 0 /\ Last(stack) > c THEN PopTo(Front(stack), c) ELSE stack

RECURSIVE ParseFrom(_, _, _, _)
ParseFrom(ss, i, stack, depths) ==
    IF i > Len(ss)
    THEN IF Len(ss) > 0 /\ Opener(ss[Len(ss)])
         THEN SyntaxError                                  \* expected an indented block
         ELSE [ok |-> TRUE, depth |-> depths]
    ELSE LET c == ss[i].indent
             top == Last(stack)
             afterOpener == i > 1 /\ Opener(ss[i - 1])
             popped == PopTo(stack, c)
         IN  IF ss[i].stmt.k = "garbage" THEN SyntaxError
             ELSE IF afterOpener
             THEN IF c > top
                  THEN ParseFrom(ss, i + 1, Append(stack, c), Append(depths, Len(stack)))
                  ELSE SyntaxError                         \* expected an indented block
             ELSE IF c > top THEN SyntaxError              \* unexpected indent
             ELSE IF Last(popped) # c THEN SyntaxError     \* unindent does not match
             ELSE ParseFrom(ss, i + 1, popped, Append(depths, Len(popped) - 1))

ast_parse(src) == ParseFrom(Stmts(src), 1, <<0>>, <<>>)

\* ------------------------------------------------------------------------
\* The tree: nodes are addressed by statement index; expression nodes by a
\* position under their statement.
\* ------------------------------------------------------------------------
Node(kind, line, sub) == [kind |-> kind, line |-> line, sub |-> sub]
ModuleNode == Node("Module", 0, 0)

StmtKind(s) ==
    CASE s.k = "def" -> "FunctionDef"
      [] s.k = "asyncdef" -> "AsyncFunctionDef"
      [] s.k = "assign" -> "Assign"
      [] s.k = "annassign" -> "AnnAssign"
      [] s.k = "expr" -> "Expr"

\* The statements of the block owned by statement i (0 is the module).
RECURSIVE BodyFrom(_, _, _, _)
BodyFrom(ss, depths, j, d) ==
    IF j > Len(ss) \/ depths[j] < d THEN <<>>
    ELSE IF depths[j] = d
         THEN <<Node(StmtKind(ss[j].stmt), j, 0)>> \o BodyFrom(ss, depths, j + 1, d)
         ELSE BodyFrom(ss, depths, j + 1, d)

Body(ss, depths, i) ==
    IF i = 0 THEN BodyFrom(ss, depths, 1, 0)
    ELSE BodyFrom(ss, depths, i + 1, depths[i] + 1)

\* The value held by a Constant node: a Python object, tagged by its type.
PyStr(s) == [type |-> "str", s |-> s]
PyInt == [type |-> "int", s |-> ""]
ConstantValue(s) ==
    IF s.value = "str" THEN PyStr(IF s.k = "expr" THEN "doc" ELSE "s") ELSE PyInt

iter_child_nodes(ss, depths, n) ==
    CASE n.kind = "Module" -> Body(ss, depths, 0)
      [] n.kind \in {"FunctionDef", "AsyncFunctionDef"} ->
            IF ss[n.line].stmt.inline THEN <<>> ELSE Body(ss, depths, n.line)
      [] n.kind = "Assign" ->
            [k \in 1..Len(ss[n.line].stmt.targets) |->
                Node(ss[n.line].stmt.targets[k].t, n.line, k)]
            \o <<Node("Constant", n.line, 0)>>
      [] n.kind = "AnnAssign" ->
            <<Node("Name", n.line, 1), Node("Name", n.line, 2), Node("Constant", n.line, 0)>>
      [] n.kind = "Expr" -> <<Node("Constant", n.line, 0)>>
      [] n.kind = "Tuple" -> <<Node("Name", n.line, n.sub), Node("Name", n.line, n.sub)>>
      [] n.kind \in {"Attribute", "Subscript"} -> <<Node("Name", n.line, n.sub)>>
      [] OTHER -> <<>>

\* ast.get_docstring followed by doc.splitlines()[0] if doc else "".
Doc(ss, depths, n) ==
    LET body == iter_child_nodes(ss, depths, n)
    IN  IF Len(body) > 0 /\ body[1].kind = "Expr"
           /\ ConstantValue(ss[body[1].line].stmt).type = "str"
        THEN ConstantValue(ss[body[1].line].stmt).s
        ELSE ""

\* ------------------------------------------------------------------------
\* tokenize: the COMMENT tokens of the text and str.strip().
\* ------------------------------------------------------------------------
RECURSIVE Strip(_)
Strip(s) ==
    IF Len(s) > 0 /\ s[1] = " " THEN Strip(Tail(s))
    ELSE IF Len(s) > 0 /\ Last(s) = " " THEN Strip(Front(s))
    ELSE s

CommentTokens(src) ==
    LET cs == SelectSeq(src, IsComment)
    IN  [k \in 1..Len(cs) |-> CommentText]

\* Variant of NextTodo: a stack (depth-first) in place of the queue.
NextTodoStack(q, children) == children \o Tail(q)

\* ast.walk: the queue after node = todo.popleft() and
\* todo.extend(iter_child_nodes(node)).
NextTodo(q, children) == Tail(q) \o children

\* ------------------------------------------------------------------------
\* extract_features_from_code
\* ------------------------------------------------------------------------
EmptyFeatures == [functions |-> <<>>, variables |-> <<>>, strings |-> <<>>, comments |-> <<>>]

\* Variant of NameTargets: only targets[0] is looked at.
NameTargetsFirstOnly(targets) ==
    IF Len(targets) > 0 /\ targets[1].t = "Name" THEN <<targets[1].id>> ELSE <<>>

\* The ids of the ast.Name elements of node.targets (lines 38-40).
NameTargets(targets) ==
    LET names == SelectSeq(targets, LAMBDA t : t.t = "Name")
    IN  [k \in 1..Len(names) |-> names[k].id]

NoMatch == [isNone |-> TRUE, key |-> <<>>, desc |-> ""]

ExInit ==
    /\ \E n \in 0..MaxLines : code \in Sources(n)
    /\ pc = "parse"
    /\ tree = SyntaxError
    /\ tokens = <<>>
    /\ todo = <<>>
    /\ features = EmptyFeatures
    /\ exc = "none"
    /\ term = <<>> /\ glossary = <<>> /\ mpc = "idle" /\ matched = NoMatch
    /\ feats = EmptyFeatures /\ phase = "idle" /\ idx = 0 /\ requirements = <<>>

\* Variant of Parse: the comments are collected before the text is parsed,
\* so that the SyntaxError handler returns them.
ParseKeepsComments ==
    /\ pc = "parse"
    /\ tree' = ast_parse(code)
    /\ features' = [features EXCEPT !.comments =
                       [k \in 1..Len(CommentTokens(code)) |-> Strip(CommentTokens(code)[k])]]
    /\ tokens' = tokens
    /\ IF tree'.ok
       THEN /\ pc' = "walk"
            /\ todo' = <<ModuleNode>>
       ELSE /\ pc' = "returned"
            /\ todo' = todo
    /\ UNCHANGED <<code, exc>>
    /\ UNCHANGED <<glossary, fmVars, irVars>>

\* tree = ast.parse(code), with the SyntaxError handler (lines 17-20).
Parse ==
    /\ pc = "parse"
    /\ tree' = ast_parse(code)
    /\ IF tree'.ok
       THEN /\ pc' = "tokenize"
            /\ tokens' = CommentTokens(code)
       ELSE /\ pc' = "returned"
            /\ tokens' = tokens
    /\ UNCHANGED <<code, todo, features, exc>>
    /\ UNCHANGED <<glossary, fmVars, irVars>>

\* One COMMENT token of the token loop (lines 24-26).
TokenStep ==
    /\ pc = "tokenize"
    /\ tokens # <<>>
    /\ features' = [features EXCEPT !.comments = Append(@, Strip(Head(tokens)))]
    /\ tokens' = Tail(tokens)
    /\ UNCHANGED <<code, pc, tree, todo, exc>>
    /\ UNCHANGED <<glossary, fmVars, irVars>>

\* The token stream ends; ast.walk starts with the module node queued.
TokenEnd ==
    /\ pc = "tokenize"
    /\ tokens = <<>>
    /\ pc' = "walk"
    /\ todo' = <<ModuleNode>>
    /\ UNCHANGED <<code, tree, tokens, features, exc>>
    /\ UNCHANGED <<glossary, fmVars, irVars>>

\* tokenize.TokenError cuts the token stream short (lines 27-28): the
\* comments collected so far are kept and the walk starts.
TokenError ==
    /\ pc = "tokenize"
    /\ tokens # <<>>
    /\ tokens' = <<>>
    /\ pc' = "walk"
    /\ todo' = <<ModuleNode>>
    /\ UNCHANGED <<code, tree, features, exc>>
    /\ UNCHANGED <<glossary, fmVars, irVars>>

\* One iteration of "for node in ast.walk(tree)" (lines 30-44).
WalkStep ==
    /\ pc = "walk"
    /\ todo # <<>>
    /\ LET ss == Stmts(code)
           node == Head(todo)
           s == IF node.line > 0 THEN ss[node.line].stmt ELSE Shape("module", "", TRUE, <<>>, "none")
       IN  /\ todo' = NextTodo(todo, iter_child_nodes(ss, tree.depth, node))
           /\ IF node.kind = "FunctionDef"
              THEN /\ features' = [features EXCEPT !.functions =
                          Append(@, [name |-> s.name, doc |-> Doc(ss, tree.depth, node)])]
                   /\ UNCHANGED <<pc, exc>>
              ELSE IF node.kind = "Assign"
              THEN /\ features' = [features EXCEPT !.variables = @ \o NameTargets(s.targets)]
                   /\ UNCHANGED <<pc, exc>>
              ELSE IF node.kind = "Expr" /\ ConstantValue(s).type = "str"
              THEN /\ features' = [features EXCEPT !.strings = Append(@, ConstantValue(s).s)]
                   /\ UNCHANGED <<pc, exc>>
              ELSE IF node.kind = "Constant" /\ ConstantValue(s).type = "str"
              THEN \* node.value.value: node.value is a str, which has no attribute "value"
                   /\ pc' = "raised"
                   /\ exc' = "AttributeError"
                   /\ UNCHANGED features
              ELSE UNCHANGED <<pc, exc, features>>
    /\ UNCHANGED <<code, tree, tokens>>
    /\ UNCHANGED <<glossary, fmVars, irVars>>

\* return features (line 46).
Return ==
    /\ pc = "walk"
    /\ todo = <<>>
    /\ pc' = "returned"
    /\ UNCHANGED <<code, tree, tokens, todo, features, exc>>
    /\ UNCHANGED <<glossary, fmVars, irVars>>

ExNext ==
    \/ Parse
    \/ TokenStep
    \/ TokenEnd
    \/ TokenError
    \/ WalkStep
    \/ Return

\* ------------------------------------------------------------------------
\* Strings of the matcher and the rule engine: sequences of characters.
\* CodePoints lists the characters used, in increasing code point order.
\* ------------------------------------------------------------------------
CodePoints ==
    <<" ", "#", "A", "D", "E", "F", "I", "L", "N", "P", "T", "V", "_",
      "a", "d", "e", "f", "i", "l", "n", "p", "t", "u", "v", "x", "y", "z">>
Uppers == <<"A", "D", "E", "F", "I", "L", "N", "P", "T", "V">>
Lowers == <<"a", "d", "e", "f", "i", "l", "n", "p", "t", "v">>

Ord(c) == CHOOSE k \in 1..Len(CodePoints) : CodePoints[k] = c

LowerChar(c) ==
    IF \E k \in 1..Len(Uppers) : Uppers[k] = c
    THEN Lowers[CHOOSE k \in 1..Len(Uppers) : Uppers[k] = c]
    ELSE c

\* str.lower()
Lower(s) == [k \in 1..Len(s) |-> LowerChar(s[k])]

\* Python's ordering of str: by code point, a proper prefix first.
RECURSIVE StrLess(_, _)
StrLess(a, b) ==
    IF Len(b) = 0 THEN FALSE
    ELSE IF Len(a) = 0 THEN TRUE
    ELSE IF a[1] # b[1] THEN Ord(a[1]) < Ord(b[1])
    ELSE StrLess(Tail(a), Tail(b))

\* sub in s
Contains(s, sub) ==
    \E k \in 0..(Len(s) - Len(sub)) : SubSeq(s, k + 1, k + Len(sub)) = sub

\* ------------------------------------------------------------------------
\* difflib.SequenceMatcher(a, b) without junk
\* ------------------------------------------------------------------------
RECURSIVE RunLen(_, _, _, _, _, _)
RunLen(a, b, i, j, ahi, bhi) ==
    IF i > ahi \/ j > bhi \/ a[i] # b[j] THEN 0
    ELSE 1 + RunLen(a, b, i + 1, j + 1, ahi, bhi)

\* The longest matching block of a[alo..ahi] and b[blo..bhi]; among the
\* longest, the one starting earliest in a, then earliest in b.
find_longest_match(a, b, alo, ahi, blo, bhi) ==
    LET starts == (alo..ahi) \X (blo..bhi)
        size == [p \in starts |-> RunLen(a, b, p[1], p[2], ahi, bhi)]
        longest == {p \in starts : \A q \in starts : size[p] >= size[q]}
        best == CHOOSE p \in longest :
                   \A q \in longest : p[1] < q[1] \/ (p[1] = q[1] /\ p[2] <= q[2])
    IN  IF starts = {} THEN [i |-> alo, j |-> blo, size |-> 0]
        ELSE IF size[best] = 0 THEN [i |-> alo, j |-> blo, size |-> 0]
        ELSE [i |-> best[1], j |-> best[2], size |-> size[best]]

\* The total size of get_matching_blocks(): the longest block, then the
\* pieces to its left and to its right.
RECURSIVE Matches(_, _, _, _, _, _)
Matches(a, b, alo, ahi, blo, bhi) ==
    LET m == find_longest_match(a, b, alo, ahi, blo, bhi)
    IN  IF m.size = 0 THEN 0
        ELSE m.size
             + (IF alo < m.i /\ blo < m.j
                THEN Matches(a, b, alo, m.i - 1, blo, m.j - 1) ELSE 0)
             + (IF m.i + m.size <= ahi /\ m.j + m.size <= bhi
                THEN Matches(a, b, m.i + m.size, ahi, m.j + m.size, bhi) ELSE 0)

\* A ratio is kept as an exact fraction.
Frac(n, d) == [num |-> n, den |-> d]
FracGE(x, y) == x.num * y.den >= y.num * x.den
FracGT(x, y) == x.num * y.den > y.num * x.den

\* _calculate_ratio(matches, length)
calculate_ratio(m, length) == IF length > 0 THEN Frac(2 * m, length) ELSE Frac(1, 1)

ratio(a, b) == calculate_ratio(Matches(a, b, 1, Len(a), 1, Len(b)), Len(a) + Len(b))

Count(c, s) == Cardinality({k \in 1..Len(s) : s[k] = c})
Min(x, y) == IF x <= y THEN x ELSE y

RECURSIVE SumMin(_, _, _)
SumMin(cs, a, b) ==
    IF cs = {} THEN 0
    ELSE LET c == CHOOSE x \in cs : TRUE
         IN  Min(Count(c, a), Count(c, b)) + SumMin(cs \ {c}, a, b)

\* Upper bounds on ratio(): the multiset intersection and the lengths.
quick_ratio(a, b) ==
    calculate_ratio(SumMin({a[k] : k \in 1..Len(a)}, a, b), Len(a) + Len(b))
real_quick_ratio(a, b) == calculate_ratio(Min(Len(a), Len(b)), Len(a) + Len(b))

\* ------------------------------------------------------------------------
\* difflib.get_close_matches(word, possibilities, n=1, cutoff=0.6)
\* ------------------------------------------------------------------------
\* Variant of Cutoff: 0.5.
CutoffHalf == Frac(5, 10)

Cutoff == Frac(6, 10)

CloseEnough(x, word) ==
    /\ FracGE(real_quick_ratio(x, word), Cutoff)
    /\ FracGE(quick_ratio(x, word), Cutoff)
    /\ FracGE(ratio(x, word), Cutoff)

\* The (score, x) pairs appended to result, in the order of possibilities.
RECURSIVE Scored(_, _)
Scored(word, possibilities) ==
    IF possibilities = <<>> THEN <<>>
    ELSE LET x == Head(possibilities)
         IN  (IF CloseEnough(x, word) THEN <<[score |-> ratio(x, word), x |-> x]>> ELSE <<>>)
             \o Scored(word, Tail(possibilities))

\* Tuple comparison of (score, x).
PairLess(p, q) ==
    \/ FracGT(q.score, p.score)
    \/ ~FracGT(p.score, q.score) /\ StrLess(p.x, q.x)

\* heapq.nlargest(1, result): max(result), the first of the greatest pairs.
RECURSIVE MaxPair(_, _)
MaxPair(best, rest) ==
    IF rest = <<>> THEN best
    ELSE MaxPair(IF PairLess(best, Head(rest)) THEN Head(rest) ELSE best, Tail(rest))

nlargest1(res) == IF res = <<>> THEN <<>> ELSE <<MaxPair(Head(res), Tail(res))>>

get_close_matches(word, possibilities) ==
    LET res == nlargest1(Scored(word, possibilities))
    IN  [k \in 1..Len(res) |-> res[k].x]

\* ------------------------------------------------------------------------
\* The glossary: a dict, kept as its items in insertion order.
\* ------------------------------------------------------------------------
Keys(g) == [k \in 1..Len(g) |-> g[k].key]
Lookup(g, key) == g[CHOOSE k \in 1..Len(g) : g[k].key = key].desc

\* fuzzy_match(term, glossary)
fuzzy_match(t, g) ==
    LET matches == get_close_matches(Lower(t), Keys(g))
    IN  IF matches # <<>>
        THEN [isNone |-> FALSE, key |-> matches[1], desc |-> Lookup(g, matches[1])]
        ELSE NoMatch

\* ------------------------------------------------------------------------
\* Inputs of the matcher: terms and glossaries
\* ------------------------------------------------------------------------
Terms(n) ==
    SeqsUpTo({"i", "d", "I"}, n)
    \cup { <<"f", "e", "e">>, <<"x", "y", "z">> }

Entry(key, desc) == [key |-> key, desc |-> desc]

GlossaryItems ==
    { Entry(<<>>, "empty"),
      Entry(<<"i", "d">>, "identifier"),
      Entry(<<"I", "D">>, "IDENTIFIER"),
      Entry(<<"i", "d", "x">>, "index"),
      Entry(<<"x", "i", "d">>, "transaction"),
      Entry(<<"f", "e", "e", "_", "d", "u", "e">>, "fee_due") }

DistinctKeys(g) == \A k1, k2 \in 1..Len(g) : g[k1].key = g[k2].key => k1 = k2

\* The dicts of at most n of the given items, in every insertion order.
GlossariesOver(items, n) == {g \in SeqsUpTo(items, n) : DistinctKeys(g)}

Glossaries(n) == GlossariesOver(GlossaryItems, n)

FmInit ==
    /\ term \in Terms(MaxTermLen)
    /\ glossary \in Glossaries(MaxGloss)
    /\ mpc = "call"
    /\ matched = NoMatch
    /\ code = <<>> /\ pc = "idle" /\ tree = SyntaxError /\ tokens = <<>> /\ todo = <<>>
    /\ features = EmptyFeatures /\ exc = "none"
    /\ feats = EmptyFeatures /\ phase = "idle" /\ idx = 0 /\ requirements = <<>>

\* One call of fuzzy_match(term, glossary) (lines 55-59).
FuzzyMatch ==
    /\ mpc = "call"
    /\ matched' = fuzzy_match(term, glossary)
    /\ mpc' = "done"
    /\ UNCHANGED <<term, glossary, exVars, irVars>>

FmNext == FuzzyMatch

SpecMatch == FmInit /\ [][FmNext]_vars

\* ------------------------------------------------------------------------
\* infer_requirements
\* ------------------------------------------------------------------------
\* round(min(1.0, 0.5 + 0.1 * evidence_count), 2), in hundredths; the value
\* before rounding is kept in thousandths.
Round2(thousandths) == (thousandths + 5) \div 10
\* Variant of score_confidence: no cap at 1.0.
score_confidence_uncapped(evidence_count) == Round2(500 + 100 * evidence_count)

score_confidence(evidence_count) == Round2(Min(1000, 500 + 100 * evidence_count))

\* Variant of FeeOrPenalty: the search without re.IGNORECASE.
FeeOrPenaltyCaseSensitive(name) ==
    \/ Contains(name, <<"f", "e", "e">>)
    \/ Contains(name, <<"p", "e", "n", "a", "l", "t">>)

\* re.search(r"fee|penalt", name, re.IGNORECASE)
FeeOrPenalty(name) ==
    \/ Contains(Lower(name), <<"f", "e", "e">>)
    \/ Contains(Lower(name), <<"p", "e", "n", "a", "l", "t">>)

\* 'validate' in comment.lower()
HasValidate(comment) ==
    Contains(Lower(comment), <<"v", "a", "l", "i", "d", "a", "t", "e">>)

\* Truth value of the first component of fuzzy_match's result ("if match:").
Truthy(m) == ~m.isNone /\ m.key # <<>>

\* Variant of Emit: the finding is put in front.
EmitFront(reqs, finding) == <<finding>> \o reqs

\* requirements.append(finding)
Emit(reqs, finding) == Append(reqs, finding)

Finding(sentence, key, desc, confidence, label, of) ==
    [text |-> [sentence |-> sentence, key |-> key, desc |-> desc],
     confidence |-> confidence,
     evidence |-> [label |-> label, of |-> of, matched |-> key]]

FuncNames == { <<"F", "E", "e">>, <<"p", "e", "n", "a", "l", "t", "y">>, <<"f", "e">> }
VarNames == { <<"i", "d">>, <<"I", "D">>, <<"f", "e", "e">> }
Comments ==
    { <<"#", "V", "A", "L", "I", "D", "A", "T", "E", " ", "x">>,
      <<"#", " ", "v", "a", "l", "i", "d">> }
InferItems ==
    { Entry(<<"i", "d">>, "identifier"),
      Entry(<<"I", "D">>, "IDENTIFIER"),
      Entry(<<"f", "e", "e", "_", "d", "u", "e">>, "fee_due") }

\* Feature sets with at most MaxItems entries in all.
FeatureSets(n) ==
    UNION { UNION { {[functions |-> [k \in 1..Len(fs) |-> [name |-> fs[k], doc |-> ""]],
                      variables |-> vs, strings |-> <<>>, comments |-> cs] :
                        cs \in SeqsUpTo(Comments, n - Len(fs) - Len(vs))} :
                    vs \in SeqsUpTo(VarNames, n - Len(fs))} :
            fs \in SeqsUpTo(FuncNames, n)}

IrInit ==
    /\ feats \in FeatureSets(MaxItems)
    /\ glossary \in GlossariesOver(InferItems, MaxGloss)
    /\ phase = "functions"
    /\ idx = 1
    /\ requirements = <<>>
    /\ term = <<>> /\ mpc = "idle" /\ matched = NoMatch
    /\ code = <<>> /\ pc = "idle" /\ tree = SyntaxError /\ tokens = <<>> /\ todo = <<>>
    /\ features = EmptyFeatures /\ exc = "none"

\* One iteration of the loop over features["functions"] (lines 68-74).
FuncStep ==
    /\ phase = "functions"
    /\ idx <= Len(feats.functions)
    /\ LET func == feats.functions[idx]
       IN  requirements' =
             IF FeeOrPenalty(func.name)
             THEN Emit(requirements,
                       Finding("fee", <<>>, "", score_confidence(2), "Function", func.name))
             ELSE requirements
    /\ idx' = idx + 1
    /\ UNCHANGED <<feats, phase, glossary, exVars, fmVars>>

FuncsDone ==
    /\ phase = "functions"
    /\ idx > Len(feats.functions)
    /\ phase' = "variables"
    /\ idx' = 1
    /\ UNCHANGED <<feats, requirements, glossary, exVars, fmVars>>

\* One iteration of the loop over features["variables"] (lines 76-83).
VarStep ==
    /\ phase = "variables"
    /\ idx <= Len(feats.variables)
    /\ LET var == feats.variables[idx]
           m == fuzzy_match(var, glossary)
       IN  requirements' =
             IF Truthy(m)
             THEN Emit(requirements,
                       Finding("uses", m.key, m.desc, score_confidence(2), "Variable", var))
             ELSE requirements
    /\ idx' = idx + 1
    /\ UNCHANGED <<feats, phase, glossary, exVars, fmVars>>

VarsDone ==
    /\ phase = "variables"
    /\ idx > Len(feats.variables)
    /\ phase' = "comments"
    /\ idx' = 1
    /\ UNCHANGED <<feats, requirements, glossary, exVars, fmVars>>

\* One iteration of the loop over features["comments"] (lines 85-91).
CommentStep ==
    /\ phase = "comments"
    /\ idx <= Len(feats.comments)
    /\ LET comment == feats.comments[idx]
       IN  requirements' =
             IF HasValidate(comment)
             THEN Emit(requirements,
                       Finding("validation", <<>>, "", score_confidence(1), "Comment", comment))
             ELSE requirements
    /\ idx' = idx + 1
    /\ UNCHANGED <<feats, phase, glossary, exVars, fmVars>>

\* return requirements (line 93).
InferReturn ==
    /\ phase = "comments"
    /\ idx > Len(feats.comments)
    /\ phase' = "returned"
    /\ UNCHANGED <<feats, idx, requirements, glossary, exVars, fmVars>>

IrNext ==
    \/ FuncStep
    \/ FuncsDone
    \/ VarStep
    \/ VarsDone
    \/ CommentStep
    \/ InferReturn

SpecInfer == IrInit /\ [][IrNext]_vars

Spec == ExInit /\ [][ExNext]_vars

\* ========================================================================
\* Properties of the structural extractor (under Spec)
\* ========================================================================
Finished == pc \in {"returned", "raised"}
Parsed == pc \in {"tokenize", "walk", "returned", "raised"} /\ tree.ok

\* Statement indices in level order: by block depth, then by position.
AtDepth(depths, d) == SelectSeq([k \in 1..Len(depths) |-> k], LAMBDA k : depths[k] = d)

RECURSIVE LevelsFrom(_, _)
LevelsFrom(depths, d) ==
    IF d > Len(depths) THEN <<>> ELSE AtDepth(depths, d) \o LevelsFrom(depths, d + 1)

SourceOrder(ss) == [k \in 1..Len(ss) |-> k]

NamesAt(ss, order, kinds) ==
    LET picked == SelectSeq(order, LAMBDA i : ss[i].stmt.k \in kinds)
    IN  [k \in 1..Len(picked) |-> ss[picked[k]].stmt.name]

FunctionNames == [k \in 1..Len(features.functions) |-> features.functions[k].name]

RECURSIVE SimpleNames(_)
SimpleNames(targets) ==
    IF targets = <<>> THEN <<>>
    ELSE (IF Head(targets).t = "Name" THEN <<Head(targets).id>> ELSE <<>>)
         \o SimpleNames(Tail(targets))

\* The names a sequence of statements assigns, statement by statement;
\* single = TRUE keeps only the assignments with exactly one target.
RECURSIVE AssignedNames(_, _, _)
AssignedNames(ss, order, single) ==
    IF order = <<>> THEN <<>>
    ELSE LET st == ss[Head(order)].stmt
         IN  (IF st.k = "assign" /\ (~single \/ Len(st.targets) = 1)
              THEN SimpleNames(st.targets) ELSE <<>>)
             \o AssignedNames(ss, Tail(order), single)

Occurrences(x, seq) == Cardinality({k \in 1..Len(seq) : seq[k] = x})
StmtCount(ss, k, value) ==
    Cardinality({i \in 1..Len(ss) : ss[i].stmt.k = k /\ ss[i].stmt.value = value})

\* C1: for a text that is not syntactically valid, extract_features_from_code
\* returns the Feature Set with all four sequences empty and raises nothing.
C1_InvalidSourceReturnsEmpty ==
    (pc # "parse" /\ ~ast_parse(code).ok)
        => (pc = "returned" /\ features = EmptyFeatures /\ exc = "none")

\* An invalid text that holds a comment has been handled.
C1_Witness ==
    /\ pc = "returned"
    /\ ~ast_parse(code).ok
    /\ \E i \in 1..Len(code) : IsComment(code[i])

\* C2: for every source text, no exception propagates out of
\* extract_features_from_code, whatever node kinds the walk meets.
C2_NoExceptionPropagates == pc # "raised"

\* C3: for valid source the call returns a Feature Set whose strings hold
\* every docstring-position literal twice and every other string literal once.
C3_StringLiteralsRecorded ==
    (Finished /\ Parsed)
        => /\ pc = "returned"
           /\ Occurrences("doc", features.strings) = 2 * StmtCount(Stmts(code), "expr", "str")
           /\ Occurrences("s", features.strings) = StmtCount(Stmts(code), "assign", "str")

\* C9 as stated: for valid source, functions has one entry per declared
\* function, async ones included, in the order of the source text.
C9_EveryFunctionInSourceOrder ==
    (pc = "returned" /\ Parsed)
        => FunctionNames = NamesAt(Stmts(code), SourceOrder(Stmts(code)), {"def", "asyncdef"})

\* C9 amended: functions holds one entry per non-async function declaration
\* the walk has visited, in breadth-first order (declarations nearer the
\* root of the tree first, and in source order at one depth); when the call
\* returns, every such declaration has its entry.
C9_PlainFunctionsInLevelOrder ==
    Parsed =>
        LET expected == NamesAt(Stmts(code), LevelsFrom(tree.depth, 0), {"def"})
        IN  /\ IsPrefix(FunctionNames, expected)
            /\ pc = "returned" => FunctionNames = expected

\* A nested declaration is listed after a later top-level one.
C9_Witness ==
    /\ pc = "returned"
    /\ Parsed
    /\ Len(features.functions) >= 2
    /\ FunctionNames # NamesAt(Stmts(code), SourceOrder(Stmts(code)), {"def"})

\* C10 as stated: variables gets one entry per assignment whose target is a
\* simple name, and nothing for an assignment with a compound target or with
\* several targets.
C10_OnlySingleNameAssignments ==
    (pc = "returned" /\ Parsed)
        => features.variables = AssignedNames(Stmts(code), LevelsFrom(tree.depth, 0), TRUE)

\* C10 amended: variables gets one entry per simple-name element of the
\* target list of each plain assignment statement visited, every name of a
\* chained assignment included, in walk order with duplicates kept;
\* attribute, index and tuple targets and annotated assignments add nothing.
C10_EverySimpleNameTarget ==
    Parsed =>
        LET expected == AssignedNames(Stmts(code), LevelsFrom(tree.depth, 0), FALSE)
        IN  /\ IsPrefix(features.variables, expected)
            /\ pc = "returned" => features.variables = expected

\* A chained assignment and a compound-target assignment have been walked,
\* and a name occurs twice.
C10_Witness ==
    /\ pc = "returned"
    /\ Parsed
    /\ \E i \in 1..Len(code) : code[i].stmt.k = "assign" /\ Len(code[i].stmt.targets) = 3
    /\ features.variables = <<"x", "y", "x", "y">>

\* ========================================================================
\* Properties of the glossary matcher (under SpecMatch)
\* ========================================================================
\* The similarity the matcher computes for the k-th glossary entry: the
\* lowercased term against the key as stored.
Similarity(t, g, k) == ratio(g[k].key, Lower(t))

\* Position of the selected entry in the glossary, 0 for no match.
SelectedIndex(m, g) ==
    IF m.isNone THEN 0 ELSE CHOOSE k \in 1..Len(g) : g[k].key = m.key

LowerKeys(g) == [k \in 1..Len(g) |-> [key |-> Lower(g[k].key), desc |-> g[k].desc]]
Reverse(g) == [k \in 1..Len(g) |-> g[Len(g) + 1 - k]]

\* C7: letter case on either side is ignored: lowercasing the glossary keys
\* (or the term) changes neither whether a match is found nor which glossary
\* entry is selected.
C7_CaseInsensitiveBothSides ==
    (mpc = "done" /\ DistinctKeys(LowerKeys(glossary)))
        => /\ SelectedIndex(matched, glossary)
                = SelectedIndex(fuzzy_match(term, LowerKeys(glossary)), LowerKeys(glossary))
           /\ matched = fuzzy_match(Lower(term), glossary)

\* C8: a returned (key, description) has a key of the glossary whose
\* similarity is at least 0.6 and is exceeded by no other key, with that
\* key's description; when no key reaches 0.6 (an empty glossary included)
\* the result is (None, None); and the result does not depend on the order
\* in which the glossary is iterated.
C8_BestKeyAtOrAboveThreshold ==
    mpc = "done" =>
        LET n == Len(glossary)
            sim == [k \in 1..n |-> Similarity(term, glossary, k)]
        IN  /\ ~matched.isNone =>
                 \E k \in 1..n :
                    /\ glossary[k].key = matched.key
                    /\ glossary[k].desc = matched.desc
                    /\ FracGE(sim[k], Frac(6, 10))
                    /\ \A j \in 1..n : ~FracGT(sim[j], sim[k])
            /\ (\A k \in 1..n : ~FracGE(sim[k], Frac(6, 10))) => matched.isNone
            /\ matched = fuzzy_match(term, Reverse(glossary))

\* A key whose similarity is exactly 0.6 has been selected among two keys.
C8_Witness ==
    /\ mpc = "done"
    /\ ~matched.isNone
    /\ Len(glossary) = 2
    /\ ratio(matched.key, Lower(term)) = Frac(6, 10)

\* ========================================================================
\* Properties of the rule engine (under SpecInfer)
\* ========================================================================
Labels == [k \in 1..Len(requirements) |-> requirements[k].evidence.label]
Triggers == [k \in 1..Len(requirements) |-> requirements[k].evidence.of]

Rank(label) ==
    CASE label = "Function" -> 1
      [] label = "Variable" -> 2
      [] label = "Comment" -> 3

\* pattern occurs in s, letter case ignored.
ContainsIgnoringCase(s, pattern) ==
    \E off \in 0..(Len(s) - Len(pattern)) :
        \A k \in 1..Len(pattern) : LowerChar(s[off + k]) = pattern[k]

FeeNamed(f) ==
    \/ ContainsIgnoringCase(f.name, <<"f", "e", "e">>)
    \/ ContainsIgnoringCase(f.name, <<"p", "e", "n", "a", "l", "t">>)
GlossaryHit(v) == ~fuzzy_match(v, glossary).isNone
ValidateComment(c) == ContainsIgnoringCase(c, <<"v", "a", "l", "i", "d", "a", "t", "e">>)

FeeFunctions ==
    LET hits == SelectSeq(feats.functions, FeeNamed)
    IN  [k \in 1..Len(hits) |-> hits[k].name]
HitVariables == SelectSeq(feats.variables, GlossaryHit)
ValidateComments == SelectSeq(feats.comments, ValidateComment)

\* C4: in the findings, those of the function-name rule come first, then
\* those of the glossary rule, then those of the comment rule, and within a
\* rule they follow the order of the input sequence.
C4_FindingsInRuleOrder ==
    /\ \A i, j \in 1..Len(requirements) : i < j => Rank(Labels[i]) <= Rank(Labels[j])
    /\ phase = "returned" => Triggers = FeeFunctions \o HitVariables \o ValidateComments

\* Findings of all three rules have been returned.
C4_Witness ==
    /\ phase = "returned"
    /\ Labels = <<"Function", "Variable", "Comment">>

\* C5: the findings returned are exactly one per fee/penalty-named function
\* (0.7), one per variable the matcher matches (0.7, naming the matched key)
\* and one per comment containing "validate" (0.6); nothing is merged.
C5_OneFindingPerMatch ==
    phase = "returned" =>
        LET fees == FeeFunctions
            hits == HitVariables
            validates == ValidateComments
            labels == Labels
        IN  /\ Len(requirements) = Len(fees) + Len(hits) + Len(validates)
            /\ Occurrences("Function", labels) = Len(fees)
            /\ Occurrences("Variable", labels) = Len(hits)
            /\ Occurrences("Comment", labels) = Len(validates)
            /\ \A k \in 1..Len(requirements) :
                  LET r == requirements[k]
                  IN  CASE r.evidence.label = "Function" ->
                             /\ r.text.sentence = "fee"
                             /\ r.confidence = 70
                             /\ \E i \in 1..Len(fees) : fees[i] = r.evidence.of
                        [] r.evidence.label = "Variable" ->
                             /\ r.text.sentence = "uses"
                             /\ r.confidence = 70
                             /\ LET m == fuzzy_match(r.evidence.of, glossary)
                                IN  ~m.isNone /\ r.text.key = m.key /\ r.text.desc = m.desc
                        [] r.evidence.label = "Comment" ->
                             /\ r.text.sentence = "validation"
                             /\ r.confidence = 60
                             /\ \E i \in 1..Len(validates) : validates[i] = r.evidence.of

\* The same name triggers two rules, and an entry that triggers none is
\* left out.
C5_Witness ==
    /\ phase = "returned"
    /\ Len(requirements) = 2
    /\ Len(feats.functions) + Len(feats.variables) + Len(feats.comments) = 3
    /\ \E i, j \in 1..2 : /\ Labels[i] = "Function" /\ Labels[j] = "Variable"
                          /\ Lower(Triggers[i]) = Triggers[j]

\* C6: every finding's confidence lies in [0.0, 1.0]; the scoring function
\* is non-decreasing in the evidence count, at least 0.5 from count 0 on,
\* and equal to 1.0 from count 5 on.
C6_ConfidenceBoundedAndMonotone ==
    /\ \A k \in 1..Len(requirements) :
          requirements[k].confidence >= 0 /\ requirements[k].confidence <= 100
    /\ \A n \in (0 - MaxEvidence)..MaxEvidence :
          score_confidence(n) <= score_confidence(n + 1)
    /\ \A n \in 0..MaxEvidence :
          score_confidence(n) >= 50 /\ score_confidence(n) <= 100
    /\ \A n \in 5..MaxEvidence : score_confidence(n) = 100

\* Findings with confidence 0.7 and 0.6 have been returned.
C6_Witness ==
    /\ phase = "returned"
    /\ \E i, j \in 1..Len(requirements) :
          requirements[i].confidence = 70 /\ requirements[j].confidence = 60

====
